---- MODULE Spec2Model ----
(***************************************************************************)
(* Process orchestration of the UE5 development tools extension:           *)
(*   - CommandRegistry.executePackaging  (package job, progress, cancel)   *)
(*   - CommandRegistry.cookContent / executeCommand  (cook job)            *)
(*   - BuildManager.buildProject / generateProjectFiles  (build jobs)      *)
(*   - ConfigurationManager.refreshUE5ProjectFiles  (primary + fallback)   *)
(*   - UE5DebugConsole.appendOutput / setEngineStatus / stopEngine         *)
(* Text is modelled as TLA+ strings; substring search, split, trim and the *)
(* /(\d+)%/ match are computed character by character.                     *)
(***************************************************************************)
EXTENDS Integers, Sequences, FiniteSets, TLC

\* ------------------------------------------------------------------------
\* Bounds of the model (not program constants)
\* ------------------------------------------------------------------------
MaxRuns == 2
MaxChunks == 2
MaxAppended == 1003
MaxEngineLaunches == 2
MaxEngineChunks == 2

\* ------------------------------------------------------------------------
\* String helpers (JavaScript String methods used by the code)
\* ------------------------------------------------------------------------
\* String.prototype.includes
Includes(s, p) ==
    \E i \in 1..(Len(s) - Len(p) + 1) : SubSeq(s, i, i + Len(p) - 1) = p

CharAt(s, i) == SubSeq(s, i, i)

IsSpace(c) == c \in {" ", "\t", "\r", "\n"}

IsDigit(c) == c \in {"0", "1", "2", "3", "4", "5", "6", "7", "8", "9"}

DigitVal(c) ==
    CASE c = "0" -> 0 [] c = "1" -> 1 [] c = "2" -> 2 [] c = "3" -> 3
      [] c = "4" -> 4 [] c = "5" -> 5 [] c = "6" -> 6 [] c = "7" -> 7
      [] c = "8" -> 8 [] c = "9" -> 9

\* String.prototype.trim
RECURSIVE TrimLeft(_)
TrimLeft(s) ==
    IF Len(s) > 0 /\ IsSpace(CharAt(s, 1))
    THEN TrimLeft(SubSeq(s, 2, Len(s)))
    ELSE s

RECURSIVE TrimRight(_)
TrimRight(s) ==
    IF Len(s) > 0 /\ IsSpace(CharAt(s, Len(s)))
    THEN TrimRight(SubSeq(s, 1, Len(s) - 1))
    ELSE s

Trim(s) == TrimRight(TrimLeft(s))

\* String.prototype.split('\n'): the pieces between newlines, empty ones kept
RECURSIVE SplitLines(_)
SplitLines(s) ==
    IF \E i \in 1..Len(s) : CharAt(s, i) = "\n"
    THEN LET i == CHOOSE k \in 1..Len(s) :
                      /\ CharAt(s, k) = "\n"
                      /\ \A j \in 1..(k - 1) : CharAt(s, j) # "\n"
         IN  <<SubSeq(s, 1, i - 1)>> \o SplitLines(SubSeq(s, i + 1, Len(s)))
    ELSE <<s>>

\* parseInt of a string of decimal digits
RECURSIVE ParseInt(_)
ParseInt(d) ==
    IF Len(d) = 0 THEN 0
    ELSE 10 * ParseInt(SubSeq(d, 1, Len(d) - 1)) + DigitVal(CharAt(d, Len(d)))

\* line.match(/(\d+)%/): the positions j of a digit directly followed by '%',
\* each the end of one digit run that the pattern can match
PercentMatches(s) ==
    { j \in 1..(Len(s) - 1) : IsDigit(CharAt(s, j)) /\ CharAt(s, j + 1) = "%" }

HasPercent(s) == PercentMatches(s) # {}

\* progressMatch[1] parsed: the leftmost match, and (greedy) its whole digit run
PercentOf(s) ==
    LET j == CHOOSE e \in PercentMatches(s) : \A f \in PercentMatches(s) : e <= f
        i == CHOOSE b \in 1..j :
                 /\ \A k \in b..j : IsDigit(CharAt(s, k))
                 /\ (b = 1 \/ ~IsDigit(CharAt(s, b - 1)))
    IN  ParseInt(SubSeq(s, i, j))

\* ------------------------------------------------------------------------
\* Packaging progress tracking (executePackaging, stdout 'data' handler)
\* ------------------------------------------------------------------------
\* variant: the rules are tried from the last one up
PhaseOfBottomUp(trimmedLine) ==
    IF Includes(trimmedLine, "BUILD SUCCESSFUL")
         \/ Includes(trimmedLine, "AutomationTool exiting with ExitCode=0")
    THEN [step |-> "Completed!", value |-> 100]
    ELSE IF Includes(trimmedLine, "Moving staged files")
         \/ Includes(trimmedLine, "***** ARCHIVE COMMAND STARTED")
    THEN [step |-> "Finalizing...", value |-> 95]
    ELSE IF Includes(trimmedLine, "Creating pak file")
         \/ Includes(trimmedLine, "UnrealPak")
    THEN [step |-> "Creating package...", value |-> 85]
    ELSE IF Includes(trimmedLine, "Staging files")
         \/ Includes(trimmedLine, "***** STAGE COMMAND STARTED")
    THEN [step |-> "Staging files...", value |-> 70]
    ELSE IF Includes(trimmedLine, "Cook by the book")
         \/ Includes(trimmedLine, "Cooking")
         \/ Includes(trimmedLine, "LogCook:")
    THEN [step |-> "Cooking content...", value |-> 35]
    ELSE IF Includes(trimmedLine, "Compiling")
         \/ (Includes(trimmedLine, "Building") /\ Includes(trimmedLine, "Editor"))
    THEN [step |-> "Building project...", value |-> 15]
    ELSE IF Includes(trimmedLine, "Parsing command line")
         \/ Includes(trimmedLine, "Setting up command environment")
    THEN [step |-> "Initializing...", value |-> 5]
    ELSE [step |-> "", value |-> 0]

\* The phase detected on one trimmed line: the if / else-if chain, so the
\* first branch whose condition holds decides.  step = "" means no branch.
PhaseOf(trimmedLine) ==
    IF Includes(trimmedLine, "Parsing command line")
         \/ Includes(trimmedLine, "Setting up command environment")
    THEN [step |-> "Initializing...", value |-> 5]
    ELSE IF Includes(trimmedLine, "Compiling")
         \/ (Includes(trimmedLine, "Building") /\ Includes(trimmedLine, "Editor"))
    THEN [step |-> "Building project...", value |-> 15]
    ELSE IF Includes(trimmedLine, "Cook by the book")
         \/ Includes(trimmedLine, "Cooking")
         \/ Includes(trimmedLine, "LogCook:")
    THEN [step |-> "Cooking content...", value |-> 35]
    ELSE IF Includes(trimmedLine, "Staging files")
         \/ Includes(trimmedLine, "***** STAGE COMMAND STARTED")
    THEN [step |-> "Staging files...", value |-> 70]
    ELSE IF Includes(trimmedLine, "Creating pak file")
         \/ Includes(trimmedLine, "UnrealPak")
    THEN [step |-> "Creating package...", value |-> 85]
    ELSE IF Includes(trimmedLine, "Moving staged files")
         \/ Includes(trimmedLine, "***** ARCHIVE COMMAND STARTED")
    THEN [step |-> "Finalizing...", value |-> 95]
    ELSE IF Includes(trimmedLine, "BUILD SUCCESSFUL")
         \/ Includes(trimmedLine, "AutomationTool exiting with ExitCode=0")
    THEN [step |-> "Completed!", value |-> 100]
    ELSE [step |-> "", value |-> 0]

\* The per-run progress variables as declared at the start of a run
FreshTracker ==
    [currentStep |-> "", progressValue |-> 0, lastProgressUpdate |-> 0,
     reports |-> <<>>]

\* variant: a detected step is never reported
StepUpdateSilent(t) == t

\* "Update progress if we detected a new step": reported only when the step
\* value exceeds the last reported value
StepUpdate(t) ==
    IF t.currentStep # "" /\ t.progressValue > t.lastProgressUpdate
    THEN [t EXCEPT !.reports = Append(@,
                       [increment |-> t.progressValue - t.lastProgressUpdate,
                        phase |-> t.currentStep,
                        percent |-> t.progressValue]),
                   !.lastProgressUpdate = t.progressValue,
                   !.currentStep = ""]
    ELSE t

\* variant: every NN% token is reported, whatever was reported before
PercentUpdateUnguarded(t, trimmedLine) ==
    IF HasPercent(trimmedLine)
    THEN [t EXCEPT !.reports = Append(@,
                       [increment |-> PercentOf(trimmedLine) - t.lastProgressUpdate,
                        phase |-> "Processing...",
                        percent |-> PercentOf(trimmedLine)]),
                   !.lastProgressUpdate = PercentOf(trimmedLine)]
    ELSE t

\* "Look for specific progress indicators": a NN% token is reported only
\* when it exceeds the last reported value
PercentUpdate(t, trimmedLine) ==
    IF HasPercent(trimmedLine) /\ PercentOf(trimmedLine) > t.lastProgressUpdate
    THEN [t EXCEPT !.reports = Append(@,
                       [increment |-> PercentOf(trimmedLine) - t.lastProgressUpdate,
                        phase |-> "Processing...",
                        percent |-> PercentOf(trimmedLine)]),
                   !.lastProgressUpdate = PercentOf(trimmedLine)]
    ELSE t

\* variant: the NN% token is looked for only on lines of no phase
ObserveLineElsePercent(t, line) ==
    LET trimmedLine == Trim(line)
        ph == PhaseOf(trimmedLine)
        t1 == IF ph.step # ""
              THEN [t EXCEPT !.currentStep = ph.step, !.progressValue = ph.value]
              ELSE t
    IN  IF ph.step # "" THEN StepUpdate(t1)
        ELSE PercentUpdate(StepUpdate(t1), trimmedLine)

\* The body of the for-loop over the lines of one chunk
ObserveLine(t, line) ==
    LET trimmedLine == Trim(line)
        ph == PhaseOf(trimmedLine)
        t1 == IF ph.step # ""
              THEN [t EXCEPT !.currentStep = ph.step, !.progressValue = ph.value]
              ELSE t
    IN  PercentUpdate(StepUpdate(t1), trimmedLine)

RECURSIVE ObserveLines(_, _)
ObserveLines(t, lines) ==
    IF lines = <<>> THEN t
    ELSE ObserveLines(ObserveLine(t, Head(lines)), Tail(lines))

\* One stdout chunk: output.split('\n') and the loop over the pieces
ObserveChunk(t, output) == ObserveLines(t, SplitLines(output))

RECURSIVE ObserveChunks(_, _)
ObserveChunks(t, chunks) ==
    IF chunks = <<>> THEN t
    ELSE ObserveChunks(ObserveChunk(t, Head(chunks)), Tail(chunks))

\* ------------------------------------------------------------------------
\* Failure analysis of a packaging run (executePackaging, catch handler)
\* ------------------------------------------------------------------------
LowerChar(c) ==
    CASE c = "A" -> "a" [] c = "B" -> "b" [] c = "C" -> "c" [] c = "D" -> "d"
      [] c = "E" -> "e" [] c = "F" -> "f" [] c = "G" -> "g" [] c = "H" -> "h"
      [] c = "I" -> "i" [] c = "J" -> "j" [] c = "K" -> "k" [] c = "L" -> "l"
      [] c = "M" -> "m" [] c = "N" -> "n" [] c = "O" -> "o" [] c = "P" -> "p"
      [] c = "Q" -> "q" [] c = "R" -> "r" [] c = "S" -> "s" [] c = "T" -> "t"
      [] c = "U" -> "u" [] c = "V" -> "v" [] c = "W" -> "w" [] c = "X" -> "x"
      [] c = "Y" -> "y" [] c = "Z" -> "z" [] OTHER -> c

\* String.prototype.toLowerCase
RECURSIVE ToLowerCase(_)
ToLowerCase(s) ==
    IF Len(s) = 0 THEN ""
    ELSE LowerChar(CharAt(s, 1)) \o ToLowerCase(SubSeq(s, 2, Len(s)))

\* Array.prototype.join('\n')
RECURSIVE JoinLines(_)
JoinLines(lines) ==
    IF lines = <<>> THEN ""
    ELSE IF Len(lines) = 1 THEN lines[1]
    ELSE lines[1] \o "\n" \o JoinLines(Tail(lines))

\* the filter of the last branch: lines that mention an error and no warning
IsErrorLine(line) ==
    /\ Includes(ToLowerCase(line), "error")
    /\ ~Includes(ToLowerCase(line), "warning")
    /\ Len(Trim(line)) > 0

\* errorLines.slice(-2)
LastTwo(lines) ==
    IF Len(lines) <= 2 THEN lines ELSE SubSeq(lines, Len(lines) - 1, Len(lines))

\* the text of a process result as the failure analysis sees it
\*   exitCode: 0 when the error carries none (error.exitCode || 'unknown')
ExitCodeText(exitCode) ==
    CASE exitCode = 1 -> "1" [] exitCode = 2 -> "2" [] OTHER -> "unknown"

\* variant: the cook check is made before the build check
AnalysisBranchCookFirst(allOutput, errMessage) ==
    IF Includes(allOutput, "Could not find") /\ Includes(allOutput, ".uproject")
    THEN 1
    ELSE IF Includes(allOutput, "Visual Studio") \/ Includes(allOutput, "MSVC")
    THEN 2
    ELSE IF Includes(allOutput, "Windows SDK")
    THEN 3
    ELSE IF Includes(allOutput, "Cook") /\ Includes(allOutput, "failed")
    THEN 5
    ELSE IF Includes(allOutput, "UnrealBuildTool") /\ Includes(allOutput, "failed")
    THEN 4
    ELSE IF Includes(allOutput, "AutomationTool") /\ Includes(allOutput, "exception")
    THEN 6
    ELSE IF errMessage # "" /\ Includes(errMessage, "ENOENT")
    THEN 7
    ELSE 8

\* The branch (1..7, 8 = the final else) the if / else-if chain of the
\* failure analysis takes: the first branch whose condition holds
AnalysisBranch(allOutput, errMessage) ==
    IF Includes(allOutput, "Could not find") /\ Includes(allOutput, ".uproject")
    THEN 1
    ELSE IF Includes(allOutput, "Visual Studio") \/ Includes(allOutput, "MSVC")
    THEN 2
    ELSE IF Includes(allOutput, "Windows SDK")
    THEN 3
    ELSE IF Includes(allOutput, "UnrealBuildTool") /\ Includes(allOutput, "failed")
    THEN 4
    ELSE IF Includes(allOutput, "Cook") /\ Includes(allOutput, "failed")
    THEN 5
    ELSE IF Includes(allOutput, "AutomationTool") /\ Includes(allOutput, "exception")
    THEN 6
    ELSE IF errMessage # "" /\ Includes(errMessage, "ENOENT")
    THEN 7
    ELSE 8

\* The errorMessage each branch assigns
ErrorMessageOf(allOutput, errMessage, exitCode) ==
    LET b == AnalysisBranch(allOutput, errMessage)
        errorLines == SelectSeq(SplitLines(allOutput), IsErrorLine)
    IN  CASE b = 1 -> "Project file not found or invalid path"
          [] b = 2 ->
               "Visual Studio build tools not found. Install Visual Studio 2022 with C++ tools."
          [] b = 3 -> "Windows SDK not found. Install Windows 10/11 SDK."
          [] b = 4 ->
               "Build failed. Try building the project in Development configuration first."
          [] b = 5 ->
               "Content cooking failed. Check for corrupted assets or invalid references."
          [] b = 6 -> "UAT automation tool encountered an internal error"
          [] b = 7 -> "RunUAT.bat not found. Check your engine path configuration."
          [] OTHER ->
               IF Len(errorLines) > 0
               THEN JoinLines(LastTwo(errorLines))
               ELSE "Packaging failed with exit code " \o ExitCodeText(exitCode)

\* ------------------------------------------------------------------------
\* Inputs of the model: what the external tools may write
\* ------------------------------------------------------------------------
\* chunks RunUAT may write to stdout during packaging
StdoutChunks ==
    { "Parsing command line\n",
      "Compiling 20%",
      "Cooking...\n50%",
      "Staging files\n",
      "UnrealPak 150%" }

\* chunks RunUAT may write to stderr during packaging
StderrChunks ==
    { "warning: slow asset\n",
      "Cook failed\n" }

\* the whole stderr of a process whose output is buffered until it ends
StderrTexts ==
    { "",
      "warning: deprecated API",
      "error C2065: undeclared identifier",
      "note: linking" }

\* ------------------------------------------------------------------------
\* State
\* ------------------------------------------------------------------------
VARIABLES
    runs,             \* number of jobs started so far
    kind,             \* the kind of the current job, "none" before the first
    attempt,          \* "none" | "primary" | "fallback": the command running
    proc,             \* OS process of the job: "none" | "alive" | "exited" | "spawnfail"
    procResult,       \* "none" | "exit0" | "exit1" | "signal" | "enoent"
    timedOut,         \* the timeout of the current process has fired
    primaryEnd,       \* how the primary command of a refresh ended
    spawned,          \* number of processes spawned for the current job
    killSent,         \* the cancel handler sent SIGTERM to the process
    cancelRequested,  \* the cancellation token of the job has fired
    cancelWhileAlive, \* ... and the process was alive at that moment
    outcome,          \* what the awaiting caller sees:
                      \* "none" | "pending" | "completed" | "failed" | "cancelled"
    errorMessage,     \* message of the error the job promise rejected with
    notifications,    \* messages shown to the user for the current job
    totalOutput,      \* stdout collected so far
    totalError,       \* stderr collected so far
    tracker,          \* currentStep, progressValue, lastProgressUpdate, reports
    observed,         \* stdout chunks the current packaging run has handled
    handlerRan,       \* the then/catch of the packaging process has run
    chunks,           \* number of output chunks of the current run
    staleLast,        \* lastProgressUpdate the packaging run just before ended with
    prerequisite,     \* executePackaging before the spawn: the answer to the
                      \* missing-binaries dialog and how the build it ran ended
    configFiles,      \* configuration file -> number of the job that wrote it
                      \* last, 0 for the content that was there before
    outputLines,      \* UE5DebugConsole.outputLines
    appended,         \* every entry ever pushed to the console, in order
    isEngineRunning,  \* UE5DebugConsole.isEngineRunning
    currentProcess,   \* UE5DebugConsole.currentProcess: 0 = none, else process id
    engines,          \* engine processes launched: id -> proc, result, kills,
                      \* stdout, stderr
    enginePromise,    \* id -> "pending", or what openEngine showed at the end
    engineChunks      \* number of chunks the engine processes wrote

jobVars == <<runs, kind, attempt, proc, procResult, timedOut, primaryEnd,
             spawned, killSent, cancelRequested, cancelWhileAlive, outcome,
             errorMessage, notifications, totalOutput, totalError, tracker,
             observed, handlerRan, chunks, staleLast, prerequisite,
             configFiles>>

consoleVars == <<outputLines, appended>>

engineVars == <<isEngineRunning, currentProcess, engines, enginePromise,
                engineChunks>>

vars == <<jobVars, consoleVars, engineVars>>

\* ------------------------------------------------------------------------
\* What the process library reports (execa 5, child_process.exec)
\* ------------------------------------------------------------------------
\* execa strips one final newline from the buffered stdout / stderr
StripFinalNewline(s) ==
    IF Len(s) > 0 /\ CharAt(s, Len(s)) = "\n" THEN SubSeq(s, 1, Len(s) - 1) ELSE s

\* error.shortMessage of a rejected execa promise
ExecaShortMessage(res, tmo) ==
    CASE res = "enoent" -> "Command failed with ENOENT: RunUAT.bat\nspawn RunUAT.bat ENOENT"
      [] res # "enoent" /\ tmo -> "Command timed out after 1800000 milliseconds: RunUAT.bat"
      [] res = "signal" /\ ~tmo -> "Command was killed with SIGTERM (Termination): RunUAT.bat"
      [] OTHER -> "Command failed with exit code 1: RunUAT.bat"

\* error.message: the short message, then stderr, then stdout, empty ones left out
ExecaMessage(res, tmo, stderr, stdout) ==
    JoinLines(SelectSeq(<<ExecaShortMessage(res, tmo), stderr, stdout>>,
                        LAMBDA x : x # ""))

\* error.exitCode of a rejected promise; 0 stands for undefined
ErrorExitCode(res) == IF res = "exit1" THEN 1 ELSE 0

\* a process result counts as success for the library: exit code 0, no signal
ProcSucceeded(res) == res = "exit0"

\* ------------------------------------------------------------------------
\* Initial state
\* ------------------------------------------------------------------------
\* no packaging has asked about missing binaries
NoPrerequisite == [shouldBuild |-> "none", build |-> "none"]

\* the files setupCppEnvironment generates in the .vscode directory
ConfigFileNames ==
    {"c_cpp_properties.json", "launch.json", "tasks.json", "settings.json"}

\* the files as they were before any job ran
ExistingConfigFiles == [f \in ConfigFileNames |-> 0]

JobInit ==
    /\ runs = 0
    /\ kind = "none"
    /\ attempt = "none"
    /\ proc = "none"
    /\ procResult = "none"
    /\ timedOut = FALSE
    /\ primaryEnd = "none"
    /\ spawned = 0
    /\ killSent = FALSE
    /\ cancelRequested = FALSE
    /\ cancelWhileAlive = FALSE
    /\ outcome = "none"
    /\ errorMessage = ""
    /\ notifications = <<>>
    /\ totalOutput = ""
    /\ totalError = ""
    /\ tracker = FreshTracker
    /\ observed = <<>>
    /\ handlerRan = FALSE
    /\ chunks = 0
    /\ staleLast = 0
    /\ prerequisite = NoPrerequisite
    /\ configFiles = ExistingConfigFiles

ConsoleInit ==
    /\ outputLines = <<>>
    /\ appended = <<>>

EngineInit ==
    /\ isEngineRunning = FALSE
    /\ currentProcess = 0
    /\ engines = <<>>
    /\ enginePromise = <<>>
    /\ engineChunks = 0

Init == JobInit /\ ConsoleInit /\ EngineInit

\* ------------------------------------------------------------------------
\* Jobs: common parts
\* ------------------------------------------------------------------------
\* a new command is issued only when the previous job has ended, its process
\* is gone and its completion handler has run (one job at a time); the
\* detached editor is nobody's process once it was started
Quiescent ==
    /\ outcome # "pending"
    /\ proc # "alive" \/ kind = "open"
    /\ ~(kind = "package" /\ proc \in {"exited", "spawnfail"} /\ ~handlerRan)

\* the variables every job start sets, for a job of kind k whose first
\* process did (ok) or did not start
StartJob(k, ok) ==
    /\ Quiescent
    /\ runs < MaxRuns
    /\ runs' = runs + 1
    /\ kind' = k
    /\ attempt' = "primary"
    /\ proc' = IF ok THEN "alive" ELSE "spawnfail"
    /\ procResult' = IF ok THEN "none" ELSE "enoent"
    /\ timedOut' = FALSE
    /\ primaryEnd' = "none"
    /\ spawned' = 1
    /\ killSent' = FALSE
    /\ cancelRequested' = FALSE
    /\ cancelWhileAlive' = FALSE
    /\ outcome' = "pending"
    /\ errorMessage' = ""
    /\ notifications' = <<>>
    /\ totalOutput' = ""
    /\ totalError' = ""
    /\ handlerRan' = FALSE
    /\ chunks' = 0

\* a job other than packaging has no progress variables
NoProgressState ==
    /\ tracker' = FreshTracker
    /\ observed' = <<>>
    /\ staleLast' = 0

\* the running process ends by itself or by the signal it was sent; the
\* stderr of a process whose output is buffered is known at that moment
\* (nobody reads it when the job was given up at a timeout before)
ProcExit ==
    /\ proc = "alive"
    /\ \E res \in {"exit0", "exit1"} \cup
                  (IF killSent \/ timedOut THEN {"signal"} ELSE {}) :
           procResult' = res
    /\ proc' = "exited"
    /\ IF kind = "package" \/ outcome # "pending"
       THEN totalError' = totalError
       ELSE \E err \in StderrTexts : totalError' = err
    /\ UNCHANGED <<runs, kind, attempt, timedOut, primaryEnd, spawned, killSent,
                   cancelRequested, cancelWhileAlive, outcome, errorMessage,
                   notifications, totalOutput, tracker, observed, handlerRan,
                   chunks, staleLast>>

\* the timeout option of the process fires: the library sends the kill signal
\*   cook 30 min, refresh primary 60 s, refresh fallback 120 s
Timeout ==
    /\ proc = "alive"
    /\ kind \in {"cook", "refresh"}
    /\ ~timedOut
    /\ timedOut' = TRUE
    /\ UNCHANGED <<runs, kind, attempt, proc, procResult, primaryEnd, spawned,
                   killSent, cancelRequested, cancelWhileAlive, outcome,
                   errorMessage, notifications, totalOutput, totalError,
                   tracker, observed, handlerRan, chunks, staleLast>>

\* ------------------------------------------------------------------------
\* Package job (CommandRegistry.packageProject / executePackaging)
\* ------------------------------------------------------------------------
\* variant: progress variables that live outside the run and are not reset
NewRunTrackerStale(previous) == [previous EXCEPT !.reports = <<>>]

\* the progress variables a run begins with: they are declared inside the
\* withProgress callback, so whatever an earlier run left is not seen
NewRunTracker(previous) == FreshTracker

\* settling the promise of the run: only the first resolve / reject counts
Settle(current, result) == IF current = "pending" THEN result ELSE current

\* packageProject's catch shows what executePackaging rejected with
OuterFailure(msg) ==
    [level |-> "error", from |-> "packageProject",
     text |-> "Packaging failed: " \o msg]

\* withProgress callback up to the spawn
StartPackage ==
    /\ \E ok \in BOOLEAN : StartJob("package", ok)
    /\ tracker' = NewRunTracker(tracker)
    /\ observed' = <<>>
    /\ staleLast' = tracker.lastProgressUpdate

\* subprocess.stdout.on('data')
PkgStdout(output) ==
    /\ kind = "package"
    /\ proc = "alive"
    /\ chunks < MaxChunks
    /\ chunks' = chunks + 1
    /\ totalOutput' = totalOutput \o output
    /\ tracker' = ObserveChunk(tracker, output)
    /\ observed' = Append(observed, output)
    /\ UNCHANGED <<runs, kind, attempt, proc, procResult, timedOut, primaryEnd,
                   spawned, killSent, cancelRequested, cancelWhileAlive,
                   outcome, errorMessage, notifications, totalError,
                   handlerRan, staleLast>>

\* subprocess.stderr.on('data'): collected; the progress message it may set
\* carries no increment
PkgStderr(output) ==
    /\ kind = "package"
    /\ proc = "alive"
    /\ chunks < MaxChunks
    /\ chunks' = chunks + 1
    /\ totalError' = totalError \o output
    /\ UNCHANGED <<runs, kind, attempt, proc, procResult, timedOut, primaryEnd,
                   spawned, killSent, cancelRequested, cancelWhileAlive,
                   outcome, errorMessage, notifications, totalOutput, tracker,
                   observed, handlerRan, staleLast>>

\* token.onCancellationRequested: kill, then reject at once
PkgCancel ==
    /\ kind = "package"
    /\ outcome = "pending"
    /\ ~cancelRequested
    /\ cancelRequested' = TRUE
    /\ cancelWhileAlive' = (proc = "alive")
    /\ killSent' = (proc = "alive")
    /\ outcome' = Settle(outcome, "cancelled")
    /\ errorMessage' = "Packaging cancelled by user"
    /\ notifications' = Append(notifications,
                               OuterFailure("Packaging cancelled by user"))
    /\ UNCHANGED <<runs, kind, attempt, proc, procResult, timedOut, primaryEnd,
                   spawned, totalOutput, totalError, tracker, observed,
                   handlerRan, chunks, staleLast>>

\* subprocess.then: the process ended with exit code 0; a last progress
\* report of 100 is sent, the success message is shown, the run resolves
PkgThen ==
    /\ kind = "package"
    /\ proc = "exited"
    /\ ~handlerRan
    /\ ProcSucceeded(procResult)
    /\ handlerRan' = TRUE
    /\ notifications' = notifications \o
           << [level |-> "progress", from |-> "executePackaging",
               text |-> "Packaging completed successfully!", increment |-> 100],
              [level |-> "info", from |-> "executePackaging",
               text |-> "Project packaged successfully"] >>
    /\ outcome' = Settle(outcome, "completed")
    /\ UNCHANGED <<runs, kind, attempt, proc, procResult, timedOut, primaryEnd,
                   spawned, killSent, cancelRequested, cancelWhileAlive,
                   errorMessage, totalOutput, totalError, tracker, observed,
                   chunks, staleLast>>

\* the text the failure analysis searches
AllOutput ==
    totalOutput \o "\n" \o totalError \o "\n"
        \o StripFinalNewline(totalError) \o "\n" \o StripFinalNewline(totalOutput)

\* the errorMessage the catch handler computes in the current state
PkgErrorMessage ==
    ErrorMessageOf(AllOutput,
                   ExecaMessage(procResult, FALSE,
                                StripFinalNewline(totalError),
                                StripFinalNewline(totalOutput)),
                   ErrorExitCode(procResult))

\* subprocess.catch: the process could not start, exited nonzero or was
\* killed; analyses the output, shows the error, rejects
PkgCatch ==
    /\ kind = "package"
    /\ proc \in {"exited", "spawnfail"}
    /\ ~handlerRan
    /\ ~ProcSucceeded(procResult)
    /\ handlerRan' = TRUE
    /\ outcome' = Settle(outcome, "failed")
    /\ errorMessage' = IF outcome = "pending" THEN PkgErrorMessage ELSE errorMessage
    /\ notifications' =
           LET shown == Append(notifications,
                               [level |-> "error", from |-> "analysis",
                                text |-> PkgErrorMessage])
           IN  IF outcome = "pending"
               THEN Append(shown, OuterFailure(PkgErrorMessage))
               ELSE shown
    /\ UNCHANGED <<runs, kind, attempt, proc, procResult, timedOut, primaryEnd,
                   spawned, killSent, cancelRequested, cancelWhileAlive,
                   totalOutput, totalError, tracker, observed, chunks, staleLast>>

\* ------------------------------------------------------------------------
\* Cook job (CommandRegistry.cookContent through executeCommand)
\* ------------------------------------------------------------------------
StartCook ==
    /\ \E ok \in BOOLEAN : StartJob("cook", ok)
    /\ NoProgressState

\* the user presses Cancel on the "Cooking Content" notification: the
\* callback receives the token but registers nothing on it
CookCancel ==
    /\ kind = "cook"
    /\ outcome = "pending"
    /\ ~cancelRequested
    /\ cancelRequested' = TRUE
    /\ cancelWhileAlive' = (proc = "alive")
    /\ UNCHANGED <<runs, kind, attempt, proc, procResult, timedOut, primaryEnd,
                   spawned, killSent, outcome, errorMessage, notifications,
                   totalOutput, totalError, tracker, observed, handlerRan,
                   chunks, staleLast>>

\* result.code as executeCommand returns it:
\*   result.exitCode || 0 on success, error.exitCode || 1 in the catch
ExecuteCommandCode(res) == IF ProcSucceeded(res) THEN 0 ELSE 1

\* what executeCommand returns for a process that ended as res, or was given
\* up at the timeout (tmo), having written stderr:
\*   { stdout, stderr: result.stderr, code: result.exitCode || 0 } after the await,
\*   { stdout, stderr: error.stderr || error.message, code: error.exitCode || 1 }
\*   in the catch; a timeout rejects whatever the process does afterwards
ExecuteCommandResult(res, tmo, stderr) ==
    IF ProcSucceeded(res) /\ ~tmo
    THEN [stdout |-> "", stderr |-> stderr, code |-> ExecuteCommandCode(res)]
    ELSE [stdout |-> "",
          stderr |-> IF stderr # "" THEN stderr
                     ELSE ExecaMessage(IF tmo THEN "signal" ELSE res, tmo, "", ""),
          code |-> 1]

\* the error cookContent throws for a result whose code is not 0
CookFailureMessage(result) ==
    "Cooking failed with exit code " \o ExitCodeText(result.code)
        \o ": " \o result.stderr

\* executeCommand returns and cookContent reports: the awaited process
\* promise settles when the process ended, could not start, or at the timeout
\* (with the stderr the process has written until then)
CookDone ==
    /\ kind = "cook"
    /\ outcome = "pending"
    /\ proc \in {"exited", "spawnfail"} \/ (proc = "alive" /\ timedOut)
    /\ \E err \in (IF proc = "alive" THEN StderrTexts ELSE {totalError}) :
           LET result == ExecuteCommandResult(procResult, timedOut, err)
               msg == CookFailureMessage(result)
           IN  /\ totalError' = err
               /\ IF result.code = 0
                  THEN /\ outcome' = "completed"
                       /\ errorMessage' = ""
                       /\ notifications' = Append(notifications,
                              [level |-> "info", from |-> "cookContent",
                               text |-> "Content cooking completed successfully"])
                  ELSE /\ outcome' = "failed"
                       /\ errorMessage' = msg
                       /\ notifications' = Append(notifications,
                              [level |-> "error", from |-> "cookContent",
                               text |-> "Content cooking failed: " \o msg])
    /\ UNCHANGED <<runs, kind, attempt, proc, procResult, timedOut, primaryEnd,
                   spawned, killSent, cancelRequested, cancelWhileAlive,
                   totalOutput, tracker, observed, handlerRan, chunks, staleLast>>

\* ------------------------------------------------------------------------
\* Opening the editor detached (CommandRegistry.openEngine through
\* executeCommand with detached: true)
\* ------------------------------------------------------------------------
\* what executeCommand returns in detached mode, whether the process started
\* (ok) or not: the spawn error of execa arrives later, on a promise that
\* nobody awaits
DetachedResult(ok) == [stdout |-> "", stderr |-> "", code |-> 0]

\* variant: the detached process is awaited like any other
OpenEngineAwaiting ==
    /\ \E ok \in BOOLEAN : StartJob("open", ok)
    /\ NoProgressState

\* openEngine: spawn, unref, return at once, report success
OpenEngine ==
    /\ Quiescent
    /\ runs < MaxRuns
    /\ runs' = runs + 1
    /\ kind' = "open"
    /\ attempt' = "primary"
    /\ \E ok \in BOOLEAN :
          /\ proc' = IF ok THEN "alive" ELSE "spawnfail"
          /\ procResult' = IF ok THEN "none" ELSE "enoent"
          /\ errorMessage' = DetachedResult(ok).stderr
    /\ outcome' = "completed"
    /\ notifications' = << [level |-> "info", from |-> "openEngine",
                            text |-> "Unreal Engine opened successfully"] >>
    /\ timedOut' = FALSE
    /\ primaryEnd' = "none"
    /\ spawned' = 1
    /\ killSent' = FALSE
    /\ cancelRequested' = FALSE
    /\ cancelWhileAlive' = FALSE
    /\ totalOutput' = ""
    /\ totalError' = ""
    /\ handlerRan' = FALSE
    /\ chunks' = 0
    /\ NoProgressState

\* ------------------------------------------------------------------------
\* Build job (CommandRegistry.buildProject, BuildManager.buildProject)
\* ------------------------------------------------------------------------
\* BuildManager.hasErrors
hasErrors(stderr) ==
    /\ stderr # ""
    /\ \/ Includes(stderr, "error C")
       \/ Includes(stderr, "fatal error")
       \/ Includes(stderr, "Build failed")
       \/ Includes(stderr, "ERROR:")
       \/ Includes(stderr, "OtherCompilationError")

\* exec starts the shell that runs UnrealBuildTool
StartBuild ==
    /\ StartJob("build", TRUE)
    /\ NoProgressState

\* variant: the exit code alone decides
BuildSucceededByExitCode(res, stderr) == ProcSucceeded(res)

\* the build is taken as successful when exec resolved (exit code 0) and
\* hasErrors finds nothing in stderr
BuildSucceeded(res, stderr) == ProcSucceeded(res) /\ ~hasErrors(stderr)

\* the awaited exec settles; BuildManager returns or throws and
\* CommandRegistry.buildProject shows the result
BuildDone ==
    /\ kind = "build"
    /\ attempt = "primary"
    /\ outcome = "pending"
    /\ proc = "exited"
    /\ IF BuildSucceeded(procResult, totalError)
       THEN /\ outcome' = "completed"
            /\ errorMessage' = ""
            /\ notifications' = Append(notifications,
                   [level |-> "info", from |-> "buildProject",
                    text |-> "Build completed successfully (Development)"])
       ELSE LET msg == IF ProcSucceeded(procResult)
                       THEN "Build failed: " \o totalError
                       ELSE "Command failed: UnrealBuildTool.exe\n" \o totalError
                details == IF ~ProcSucceeded(procResult) /\ totalError # ""
                           THEN totalError ELSE msg
            IN  /\ outcome' = "failed"
                /\ errorMessage' = msg
                /\ notifications' = Append(notifications,
                       [level |-> "error", from |-> "buildProject",
                        text |-> "Build failed: " \o details \o "..."])
    /\ UNCHANGED <<runs, kind, attempt, proc, procResult, timedOut, primaryEnd,
                   spawned, killSent, cancelRequested, cancelWhileAlive,
                   totalOutput, totalError, tracker, observed, handlerRan,
                   chunks, staleLast>>

\* ------------------------------------------------------------------------
\* Project file generation (CommandRegistry.generateProjectFiles,
\* BuildManager.generateProjectFiles)
\* ------------------------------------------------------------------------
StartGenFiles ==
    /\ StartJob("genfiles", TRUE)
    /\ NoProgressState

\* generation is taken as successful when exec resolved and stderr is empty
\* or mentions a warning
GenFilesSucceeded(res, stderr) ==
    ProcSucceeded(res) /\ ~(stderr # "" /\ ~Includes(stderr, "warning"))

GenFilesDone ==
    /\ kind = "genfiles"
    /\ outcome = "pending"
    /\ proc = "exited"
    /\ IF GenFilesSucceeded(procResult, totalError)
       THEN /\ outcome' = "completed"
            /\ errorMessage' = ""
            /\ notifications' = notifications
       ELSE /\ outcome' = "failed"
            /\ errorMessage' = IF ProcSucceeded(procResult) THEN totalError
                               ELSE "Command failed: UnrealBuildTool.exe\n" \o totalError
            /\ notifications' = Append(notifications,
                   [level |-> "error", from |-> "generateProjectFiles",
                    text |-> "Failed to generate project files - check output for details"])
    /\ UNCHANGED <<runs, kind, attempt, proc, procResult, timedOut, primaryEnd,
                   spawned, killSent, cancelRequested, cancelWhileAlive,
                   totalOutput, totalError, tracker, observed, handlerRan,
                   chunks, staleLast>>

\* ------------------------------------------------------------------------
\* Project file refresh with fallback
\* (ConfigurationManager.refreshUE5ProjectFiles, fallbackProjectFileGeneration)
\* ------------------------------------------------------------------------
\* exec starts the shell that runs UnrealBuildTool -ProjectFiles ... -vscode,
\* or fails to start it (ENOENT)
StartRefresh ==
    /\ \E ok \in BOOLEAN : StartJob("refresh", ok)
    /\ NoProgressState

\* variant: the build job is given the fallback as well
FallbackDeclaredForBuild(k) == k \in {"refresh", "build"}

\* the only job whose code has a fallback command is the project file refresh
FallbackDeclared(k) == k = "refresh"

\* how an ended exec call is told apart by the history of the run
EndOf(res, tmo) ==
    IF res = "exit0" THEN "exit0"
    ELSE IF res = "signal" /\ tmo THEN "timeout"
    ELSE IF res = "enoent" THEN "enoent"
    ELSE "exit1"

\* variant: the checks after the command always throw
PrimarySucceededNever(res) == FALSE

\* the try block of refreshUE5ProjectFiles reaches its end exactly when exec
\* resolved: the stderr check and verifyCompileCommandsGenerated only log
PrimarySucceeded(res) == ProcSucceeded(res)

\* variant: only a command that ran and failed leads into the fallback
EntersFallbackAfterExit(res, tmo) == res \in {"exit1", "signal"}

\* the catch of refreshUE5ProjectFiles: every error of the try block, a
\* timeout kill included, leads into fallbackProjectFileGeneration
EntersFallback(res, tmo) == ~PrimarySucceeded(res)

\* the awaited primary exec settles.  On failure the fallback is tried:
\* GenerateProjectFiles.bat is run when it exists, otherwise the fallback
\* fails without a process
RefreshPrimaryDone ==
    /\ FallbackDeclared(kind)
    /\ attempt = "primary"
    /\ outcome = "pending"
    /\ proc \in {"exited", "spawnfail"}
    /\ primaryEnd' = EndOf(procResult, timedOut)
    /\ IF EntersFallback(procResult, timedOut)
       THEN \E scriptExists \in BOOLEAN :
              IF scriptExists
              THEN /\ attempt' = "fallback"
                   /\ proc' = "alive"
                   /\ procResult' = "none"
                   /\ timedOut' = FALSE
                   /\ spawned' = spawned + 1
                   /\ totalError' = ""
                   /\ UNCHANGED <<outcome, errorMessage>>
              ELSE /\ attempt' = "fallback"
                   /\ proc' = "none"
                   /\ procResult' = "none"
                   /\ outcome' = "failed"
                   /\ errorMessage' =
                          "Both primary and fallback project file generation methods failed"
                   /\ UNCHANGED <<timedOut, spawned, totalError>>
       ELSE /\ outcome' = "completed"
            /\ UNCHANGED <<attempt, proc, procResult, timedOut, spawned,
                           totalError, errorMessage>>
    /\ UNCHANGED <<runs, kind, killSent, cancelRequested, cancelWhileAlive,
                   notifications, totalOutput, tracker, observed, handlerRan,
                   chunks, staleLast>>

\* variant: a failed fallback is tried once more
RefreshFallbackDoneRetrying ==
    /\ FallbackDeclared(kind)
    /\ attempt = "fallback"
    /\ outcome = "pending"
    /\ proc = "exited"
    /\ IF ProcSucceeded(procResult)
       THEN /\ outcome' = "completed"
            /\ errorMessage' = ""
            /\ UNCHANGED <<proc, procResult, timedOut, spawned>>
       ELSE IF spawned < 3
       THEN /\ proc' = "alive"
            /\ procResult' = "none"
            /\ timedOut' = FALSE
            /\ spawned' = spawned + 1
            /\ UNCHANGED <<outcome, errorMessage>>
       ELSE /\ outcome' = "failed"
            /\ errorMessage' =
                   "Both primary and fallback project file generation methods failed"
            /\ UNCHANGED <<proc, procResult, timedOut, spawned>>
    /\ UNCHANGED <<runs, kind, attempt, primaryEnd, killSent, cancelRequested,
                   cancelWhileAlive, notifications, totalOutput, totalError,
                   tracker, observed, handlerRan, chunks, staleLast>>

\* the awaited fallback exec settles: success, or the final failure
RefreshFallbackDone ==
    /\ FallbackDeclared(kind)
    /\ attempt = "fallback"
    /\ outcome = "pending"
    /\ proc = "exited"
    /\ IF ProcSucceeded(procResult)
       THEN /\ outcome' = "completed"
            /\ errorMessage' = ""
       ELSE /\ outcome' = "failed"
            /\ errorMessage' =
                   "Both primary and fallback project file generation methods failed"
    /\ UNCHANGED <<runs, kind, attempt, proc, procResult, timedOut, primaryEnd,
                   spawned, killSent, cancelRequested, cancelWhileAlive,
                   notifications, totalOutput, totalError, tracker, observed,
                   handlerRan, chunks, staleLast>>

\* variant: the generators run whatever the refresh came to
ConfigFilesAfterAlways(files, run, result) == [f \in ConfigFileNames |-> run]

\* setupCppEnvironment after the awaited refresh: the four generators run
\* when the refresh resolved; when it threw, the catch logs and rethrows
ConfigFilesAfter(files, run, result) ==
    IF result = "completed" THEN [f \in ConfigFileNames |-> run] ELSE files

SetupFrame == UNCHANGED <<consoleVars, engineVars, prerequisite>>

\* the primary command settles and, unless the fallback is started,
\* setupCppEnvironment goes on
SetupPrimaryDone ==
    /\ RefreshPrimaryDone
    /\ configFiles' = ConfigFilesAfter(configFiles, runs, outcome')
    /\ SetupFrame

\* the fallback settles and setupCppEnvironment goes on
SetupFallbackDone ==
    /\ RefreshFallbackDone
    /\ configFiles' = ConfigFilesAfter(configFiles, runs, outcome')
    /\ SetupFrame

\* ------------------------------------------------------------------------
\* The job specification
\* ------------------------------------------------------------------------
\* the job actions leave the debug console alone, and neither ask about
\* missing binaries nor write configuration files
JobFrame == UNCHANGED <<consoleVars, engineVars, prerequisite, configFiles>>

Next ==
    \/ StartPackage /\ JobFrame
    \/ \E output \in StdoutChunks : PkgStdout(output) /\ JobFrame
    \/ \E output \in StderrChunks : PkgStderr(output) /\ JobFrame
    \/ PkgCancel /\ JobFrame
    \/ PkgThen /\ JobFrame
    \/ PkgCatch /\ JobFrame
    \/ StartCook /\ JobFrame
    \/ CookCancel /\ JobFrame
    \/ CookDone /\ JobFrame
    \/ OpenEngine /\ JobFrame
    \/ StartBuild /\ JobFrame
    \/ BuildDone /\ JobFrame
    \/ StartGenFiles /\ JobFrame
    \/ GenFilesDone /\ JobFrame
    \/ StartRefresh /\ JobFrame
    \/ SetupPrimaryDone
    \/ SetupFallbackDone
    \/ ProcExit /\ JobFrame
    \/ Timeout /\ JobFrame

Spec == Init /\ [][Next]_vars

\* The same program with the scheduling the runtime guarantees: a timer that
\* was set fires, and the handler of an ended process runs.  A process need
\* not ever exit by itself and the user need not ever cancel.
\* (The fairness of the catch handler is written with its guard: the handler
\* is not left pending for ever.)
PkgCatchPending ==
    /\ kind = "package"
    /\ proc \in {"exited", "spawnfail"}
    /\ ~handlerRan
    /\ ~ProcSucceeded(procResult)

SpecTimed ==
    /\ Spec
    /\ WF_vars(Timeout /\ JobFrame)
    /\ WF_vars(CookDone /\ JobFrame)
    /\ WF_vars(PkgThen /\ JobFrame)
    /\ []<>(~PkgCatchPending)

\* ------------------------------------------------------------------------
\* Packaging a project whose binaries are missing (executePackaging before
\* the spawn, the command ue5.buildDevelopment it may run)
\* ------------------------------------------------------------------------
\* what the user may answer to 'Project binaries not found...'; closing the
\* dialog gives undefined
BinariesAnswers == {"Build and Package", "Package Anyway", "Cancel", "dismissed"}

PrerequisiteFrame == UNCHANGED <<consoleVars, engineVars, configFiles>>

\* executePackaging finds no Binaries directory and asks; on 'Cancel' it
\* returns
AskAboutBinaries ==
    /\ Quiescent
    /\ runs < MaxRuns
    /\ prerequisite = NoPrerequisite
    /\ \E answer \in BinariesAnswers :
           prerequisite' = [shouldBuild |-> answer, build |-> "none"]
    /\ UNCHANGED <<runs, kind, attempt, proc, procResult, timedOut, primaryEnd,
                   spawned, killSent, cancelRequested, cancelWhileAlive, outcome,
                   errorMessage, notifications, totalOutput, totalError, tracker,
                   observed, handlerRan, chunks, staleLast>>
    /\ PrerequisiteFrame

\* 'Build and Package': vscode.commands.executeCommand('ue5.buildDevelopment')
\* runs CommandRegistry.buildProject
BuildFirst ==
    /\ prerequisite = [shouldBuild |-> "Build and Package", build |-> "none"]
    /\ StartBuild
    /\ prerequisite' = [prerequisite EXCEPT !.build = "running"]
    /\ PrerequisiteFrame

\* the awaited command has returned: CommandRegistry.buildProject catches the
\* failure of the build itself, so the command resolves after a failed build
\* as after a successful one, and executePackaging goes on to the spawn
PackageAfterBuild ==
    /\ prerequisite.build = "running"
    /\ kind = "build"
    /\ outcome \in {"completed", "failed"}
    /\ StartPackage
    /\ prerequisite' = [prerequisite EXCEPT !.build = outcome]
    /\ PrerequisiteFrame

\* 'Package Anyway', or the dialog closed: straight to the spawn
PackageAnyway ==
    /\ prerequisite.shouldBuild \in {"Package Anyway", "dismissed"}
    /\ prerequisite.build = "none"
    /\ StartPackage
    /\ prerequisite' = [prerequisite EXCEPT !.build = "skipped"]
    /\ PrerequisiteFrame

PrerequisiteNext ==
    \/ AskAboutBinaries
    \/ BuildFirst
    \/ BuildDone /\ JobFrame
    \/ PackageAfterBuild
    \/ PackageAnyway
    \/ \E output \in StdoutChunks : PkgStdout(output) /\ JobFrame
    \/ PkgThen /\ JobFrame
    \/ PkgCatch /\ JobFrame
    \/ ProcExit /\ JobFrame

SpecPrerequisite == Init /\ [][PrerequisiteNext]_vars

\* ------------------------------------------------------------------------
\* Debug console buffer (UE5DebugConsole.appendOutput)
\* ------------------------------------------------------------------------
\* "Keep only last 1000 lines"
MaxOutputLines == 1000

\* text.split('\n').filter(line => line.trim()), each kept line made an entry
\* of the given type.  (The entry text is the line behind a "[time] " prefix,
\* stored as JSON; neither changes the line.)
EntriesOf(text, type) ==
    LET kept == SelectSeq(SplitLines(text), LAMBDA line : Trim(line) # "")
    IN  [i \in 1..Len(kept) |-> [line |-> kept[i], type |-> type]]

\* variant: on overflow the oldest entries are kept instead of the newest
KeepFirst(lines) ==
    IF Len(lines) > MaxOutputLines
    THEN SubSeq(lines, 1, MaxOutputLines)
    ELSE lines

\* if (outputLines.length > 1000) outputLines = outputLines.slice(-1000)
KeepLast(lines) ==
    IF Len(lines) > MaxOutputLines
    THEN SubSeq(lines, Len(lines) - MaxOutputLines + 1, Len(lines))
    ELSE lines

\* the buffer after appendOutput(text, type)
Appended(buffer, text, type) == KeepLast(buffer \o EntriesOf(text, type))

\* decimal text of a natural number, to tell the lines of the model apart
RECURSIVE NatText(_)
NatText(n) ==
    LET digit == CASE n % 10 = 0 -> "0" [] n % 10 = 1 -> "1" [] n % 10 = 2 -> "2"
                   [] n % 10 = 3 -> "3" [] n % 10 = 4 -> "4" [] n % 10 = 5 -> "5"
                   [] n % 10 = 6 -> "6" [] n % 10 = 7 -> "7" [] n % 10 = 8 -> "8"
                   [] OTHER -> "9"
    IN  IF n < 10 THEN digit ELSE NatText(n \div 10) \o digit

\* the chunks the console may be given after n lines: one, two or three new
\* lines, with empty and blank lines between them, or nothing but blank lines
ConsoleTexts(n) ==
    { "line " \o NatText(n + 1),
      "line " \o NatText(n + 1) \o "\n\n  \n" \o "line " \o NatText(n + 2) \o "\n",
      "line " \o NatText(n + 1) \o "\n" \o "line " \o NatText(n + 2) \o "\n"
          \o "line " \o NatText(n + 3),
      "\n  \n" }

\* UE5DebugConsole.appendOutput
appendOutput(text, type) ==
    /\ outputLines' = Appended(outputLines, text, type)
    /\ appended' = appended \o EntriesOf(text, type)

\* output arrives at the console
ConsoleAppend ==
    /\ Len(appended) < MaxAppended
    /\ \E text \in ConsoleTexts(Len(appended)) : appendOutput(text, "stdout")
    /\ UNCHANGED <<jobVars, engineVars>>

ConsoleNext == ConsoleAppend

SpecConsole == Init /\ [][ConsoleNext]_vars

\* ------------------------------------------------------------------------
\* Engine session streamed to the debug console
\* (CommandRegistry.openEngine / executeCommandWithDebugConsole,
\*  UE5DebugConsole.setEngineStatus / stopEngine)
\* ------------------------------------------------------------------------
\* chunks the editor may write to stdout
EngineStdoutChunks ==
    { "LogInit: Display: Starting Game.\n",
      "LogLoad: (Engine Initialization)\n\nLogLoad: done" }

\* chunks the editor may write to stderr
EngineStderrChunks ==
    { "LogShader: Warning: slow compile\n",
      "LogWindows: Error: crash\n" }

\* the separator line; the pictographs of the banner texts are left out
Rule == "--------------------------------------------------------------------------------"

\* a sequence of appendOutput calls, applied to a buffer in order
RECURSIVE ConsoleAfter(_, _)
ConsoleAfter(buffer, calls) ==
    IF calls = <<>> THEN buffer
    ELSE ConsoleAfter(Appended(buffer, calls[1].text, calls[1].type),
                      SubSeq(calls, 2, Len(calls)))

\* the entries a sequence of appendOutput calls pushes
RECURSIVE EntriesOfAll(_)
EntriesOfAll(calls) ==
    IF calls = <<>> THEN <<>>
    ELSE EntriesOf(calls[1].text, calls[1].type)
             \o EntriesOfAll(SubSeq(calls, 2, Len(calls)))

appendOutputs(calls) ==
    /\ outputLines' = ConsoleAfter(outputLines, calls)
    /\ appended' = appended \o EntriesOfAll(calls)

\* UE5DebugConsole.setEngineStatus(running, process); 0 stands for no process
setEngineStatus(running, process) ==
    /\ isEngineRunning' = running
    /\ currentProcess' = process

\* the type a stderr chunk is shown with
StderrType(text) ==
    LET lower == ToLowerCase(text)
    IN  IF Includes(lower, "error") /\ ~Includes(lower, "warning") THEN "error"
        ELSE IF Includes(lower, "warning") THEN "warning"
        ELSE "stderr"

\* error.message of the rejected process promise of the editor
EngineErrorMessage(e) ==
    JoinLines(SelectSeq(
        << CASE e.result = "enoent" ->
                    "Command failed with ENOENT: UnrealEditor.exe\nspawn UnrealEditor.exe ENOENT"
             [] e.result = "signal" ->
                    "Command was killed with SIGTERM (Termination): UnrealEditor.exe"
             [] OTHER -> "Command failed with exit code 1: UnrealEditor.exe",
           StripFinalNewline(e.stderr),
           StripFinalNewline(e.stdout) >>,
        LAMBDA x : x # ""))

\* the lines written to the console when the process has been spawned
LaunchBanner ==
    << [text |-> "Starting Unreal Engine...", type |-> "info"],
       [text |-> "Command: UnrealEditor.exe", type |-> "info"],
       [text |-> "Arguments: Game.uproject -log -stdout", type |-> "info"],
       [text |-> "Working Directory: C:/Game", type |-> "info"],
       [text |-> Rule, type |-> "info"] >>

\* openEngine up to the await: the process is spawned (no check for an engine
\* that is already running), the console is told and the banner is written
EngineLaunch ==
    /\ Len(engines) < MaxEngineLaunches
    /\ \E ok \in BOOLEAN :
           engines' = Append(engines,
               [proc |-> IF ok THEN "alive" ELSE "spawnfail",
                result |-> IF ok THEN "none" ELSE "enoent",
                kills |-> 0, stdout |-> "", stderr |-> ""])
    /\ enginePromise' = Append(enginePromise, "pending")
    /\ setEngineStatus(TRUE, Len(engines) + 1)
    /\ appendOutputs(LaunchBanner)
    /\ UNCHANGED <<jobVars, engineChunks>>

\* subprocess.stdout.on('data')
EngineStdout(id, text) ==
    /\ id \in DOMAIN engines
    /\ engines[id].proc = "alive"
    /\ engineChunks < MaxEngineChunks
    /\ engineChunks' = engineChunks + 1
    /\ engines' = [engines EXCEPT ![id].stdout = @ \o text]
    /\ appendOutputs(<< [text |-> text, type |-> "stdout"] >>)
    /\ UNCHANGED <<jobVars, isEngineRunning, currentProcess, enginePromise>>

\* subprocess.stderr.on('data')
EngineStderr(id, text) ==
    /\ id \in DOMAIN engines
    /\ engines[id].proc = "alive"
    /\ engineChunks < MaxEngineChunks
    /\ engineChunks' = engineChunks + 1
    /\ engines' = [engines EXCEPT ![id].stderr = @ \o text]
    /\ appendOutputs(<< [text |-> text, type |-> StderrType(text)] >>)
    /\ UNCHANGED <<jobVars, isEngineRunning, currentProcess, enginePromise>>

\* the editor process ends, by itself or by the signal it was sent
EngineExit(id) ==
    /\ id \in DOMAIN engines
    /\ engines[id].proc = "alive"
    /\ \E res \in {"exit0", "exit1"} \cup
                  (IF engines[id].kills > 0 THEN {"signal"} ELSE {}) :
           engines' = [engines EXCEPT ![id].proc = "exited", ![id].result = res]
    /\ UNCHANGED <<jobVars, consoleVars, isEngineRunning, currentProcess,
                   enginePromise, engineChunks>>

\* variant: a failed process closes without a banner
EngineSettledSilentFailure(id) ==
    /\ id \in DOMAIN engines
    /\ engines[id].proc \in {"exited", "spawnfail"}
    /\ enginePromise[id] = "pending"
    /\ IF ProcSucceeded(engines[id].result)
       THEN /\ appendOutputs(
                   << [text |-> Rule, type |-> "info"],
                      [text |-> "Process completed with exit code: 0",
                       type |-> "info"] >>)
            /\ enginePromise' = [enginePromise EXCEPT ![id] = "info"]
       ELSE /\ UNCHANGED consoleVars
            /\ enginePromise' = [enginePromise EXCEPT ![id] = "warning"]
    /\ setEngineStatus(FALSE, 0)
    /\ UNCHANGED <<jobVars, engines, engineChunks>>

\* subprocess.then / subprocess.catch, and openEngine after its await: the
\* closing banner, the engine status, and the message shown to the user
EngineSettled(id) ==
    /\ id \in DOMAIN engines
    /\ engines[id].proc \in {"exited", "spawnfail"}
    /\ enginePromise[id] = "pending"
    /\ IF ProcSucceeded(engines[id].result)
       THEN /\ appendOutputs(
                   << [text |-> Rule, type |-> "info"],
                      [text |-> "Process completed with exit code: 0",
                       type |-> "info"] >>)
            /\ enginePromise' = [enginePromise EXCEPT ![id] = "info"]
       ELSE /\ appendOutputs(
                   << [text |-> Rule, type |-> "error"],
                      [text |-> "Process failed with exit code: 1",
                       type |-> "error"],
                      [text |-> "Error: " \o EngineErrorMessage(engines[id]),
                       type |-> "error"] >>)
            /\ enginePromise' = [enginePromise EXCEPT ![id] = "warning"]
    /\ setEngineStatus(FALSE, 0)
    /\ UNCHANGED <<jobVars, engines, engineChunks>>

\* variant: the stop leaves currentProcess in place
stopEngineKeepingProcess ==
    /\ IF currentProcess # 0
       THEN /\ engines' = [engines EXCEPT ![currentProcess].kills =
                              IF engines[currentProcess].proc = "alive"
                              THEN @ + 1 ELSE @]
            /\ appendOutputs(<< [text |-> "Engine process terminated by user",
                                 type |-> "info"] >>)
       ELSE UNCHANGED <<engines, consoleVars>>
    /\ setEngineStatus(FALSE, currentProcess)
    /\ UNCHANGED <<jobVars, enginePromise, engineChunks>>

\* UE5DebugConsole.stopEngine (the Stop button, Restart, closing the panel):
\* SIGTERM to the current process if there is one, then the status is set to
\* stopped at once, which also forgets the process
stopEngine ==
    /\ IF currentProcess # 0
       THEN /\ engines' = [engines EXCEPT ![currentProcess].kills =
                              IF engines[currentProcess].proc = "alive"
                              THEN @ + 1 ELSE @]
            /\ appendOutputs(<< [text |-> "Engine process terminated by user",
                                 type |-> "info"] >>)
       ELSE UNCHANGED <<engines, consoleVars>>
    /\ setEngineStatus(FALSE, 0)
    /\ UNCHANGED <<jobVars, enginePromise, engineChunks>>

EngineNext ==
    \/ EngineLaunch
    \/ \E id \in DOMAIN engines : \E text \in EngineStdoutChunks : EngineStdout(id, text)
    \/ \E id \in DOMAIN engines : \E text \in EngineStderrChunks : EngineStderr(id, text)
    \/ \E id \in DOMAIN engines : EngineExit(id)
    \/ \E id \in DOMAIN engines : EngineSettled(id)
    \/ stopEngine

SpecEngine == Init /\ [][EngineNext]_vars

\* launches, exits and stops without the output handlers, which touch only the
\* console buffer and the collected text
EngineControlNext ==
    \/ EngineLaunch
    \/ \E id \in DOMAIN engines : EngineExit(id)
    \/ \E id \in DOMAIN engines : EngineSettled(id)
    \/ stopEngine

SpecEngineControl == Init /\ [][EngineControlNext]_vars

\* ------------------------------------------------------------------------
\* The output stream of one editor process: what the process writes reaches
\* the 'data' handler in pieces cut at any position
\* ------------------------------------------------------------------------
\* what an editor process may write to stdout in all
EngineOutputs ==
    { "LogInit: start\n\nLogLoad: done\n",
      "Shader cache\nready" }

\* one editor process has been spawned and has written nothing yet
StreamingEngineInit ==
    /\ JobInit
    /\ engines = << [proc |-> "alive", result |-> "none", kills |-> 0,
                     stdout |-> "", stderr |-> ""] >>
    /\ enginePromise = << "pending" >>
    /\ isEngineRunning = TRUE
    /\ currentProcess = 1
    /\ engineChunks = 0
    /\ outputLines = ConsoleAfter(<<>>, LaunchBanner)
    /\ appended = EntriesOfAll(LaunchBanner)

\* the next piece of the output arrives: any non-empty continuation of what
\* has arrived so far
StreamNext ==
    \E whole \in EngineOutputs : \E k \in 1..Len(whole) :
        LET sent == engines[1].stdout
        IN  /\ Len(sent) < k
            /\ SubSeq(whole, 1, Len(sent)) = sent
            /\ EngineStdout(1, SubSeq(whole, Len(sent) + 1, k))

SpecStream == StreamingEngineInit /\ [][StreamNext]_vars

\* ------------------------------------------------------------------------
\* The failure analysis on its own: packaging runs that have ended in failure
\* with every output the fragments below can make
\* ------------------------------------------------------------------------
\* lines RunUAT may have written to stdout before it failed
OutputFragments ==
    { "Could not find Game.uproject\n",
      "MSVC toolchain not installed\n",
      "Windows SDK is missing\n",
      "UnrealBuildTool failed\n",
      "Cook failed\n",
      "AutomationTool exception\n",
      "error C2065: undeclared identifier\n",
      "Packaging done\n" }

\* the stdout chunks of a run: up to MaxChunks fragments
FragmentRuns ==
    UNION { [1..n -> OutputFragments] : n \in 0..MaxChunks }

RECURSIVE Concat(_)
Concat(texts) ==
    IF texts = <<>> THEN "" ELSE texts[1] \o Concat(SubSeq(texts, 2, Len(texts)))

\* a packaging run whose process has just ended in failure: it wrote the
\* chunks and exited with code 1, or it could not be started at all
FailedRunInit ==
    /\ runs = 1
    /\ kind = "package"
    /\ attempt = "primary"
    /\ \E written \in FragmentRuns, err \in StderrChunks \cup {""}, started \in BOOLEAN :
          /\ (~started) => (written = <<>> /\ err = "")
          /\ proc = IF started THEN "exited" ELSE "spawnfail"
          /\ procResult = IF started THEN "exit1" ELSE "enoent"
          /\ observed = written
          /\ totalOutput = Concat(written)
          /\ totalError = err
          /\ tracker = ObserveChunks(FreshTracker, written)
          /\ chunks = Len(written)
    /\ timedOut = FALSE
    /\ primaryEnd = "none"
    /\ spawned = 1
    /\ killSent = FALSE
    /\ cancelRequested = FALSE
    /\ cancelWhileAlive = FALSE
    /\ outcome = "pending"
    /\ errorMessage = ""
    /\ notifications = <<>>
    /\ handlerRan = FALSE
    /\ staleLast = 0
    /\ prerequisite = NoPrerequisite
    /\ configFiles = ExistingConfigFiles
    /\ ConsoleInit
    /\ EngineInit

\* the catch handler of the packaging process analyses the failure
AnalysisNext == PkgCatch /\ JobFrame

SpecAnalysis == FailedRunInit /\ [][AnalysisNext]_vars

\* ---------------------------------------------------------------------
\* The phase detection on its own: a packaging process that writes lines
\* holding the patterns of one or two phases
\* ---------------------------------------------------------------------
PhaseWords ==
    << "Parsing command line", "Compiling", "Cooking", "Staging files",
       "UnrealPak", "Moving staged files", "BUILD SUCCESSFUL" >>

\* one pattern alone, two patterns with the later phase's first, and the
\* two halves of the one pattern that needs both
PhaseLines ==
    { PhaseWords[i] : i \in DOMAIN PhaseWords }
      \cup { PhaseWords[pair[2]] \o ": " \o PhaseWords[pair[1]] :
                pair \in { pr \in (DOMAIN PhaseWords) \X (DOMAIN PhaseWords) :
                              pr[1] < pr[2] } }
      \cup { "Building", "Building the Editor", "Building the Editor: Cooking" }

\* a packaging process that was spawned and has written nothing yet
RunningPackageInit ==
    /\ runs = 1
    /\ kind = "package"
    /\ attempt = "primary"
    /\ proc = "alive"
    /\ procResult = "none"
    /\ observed = <<>>
    /\ totalOutput = ""
    /\ totalError = ""
    /\ tracker = FreshTracker
    /\ chunks = 0
    /\ timedOut = FALSE
    /\ primaryEnd = "none"
    /\ spawned = 1
    /\ killSent = FALSE
    /\ cancelRequested = FALSE
    /\ cancelWhileAlive = FALSE
    /\ outcome = "pending"
    /\ errorMessage = ""
    /\ notifications = <<>>
    /\ handlerRan = FALSE
    /\ staleLast = 0
    /\ prerequisite = NoPrerequisite
    /\ configFiles = ExistingConfigFiles
    /\ ConsoleInit
    /\ EngineInit

PhasesNext == \E output \in PhaseLines : PkgStdout(output) /\ JobFrame

SpecPhases == RunningPackageInit /\ [][PhasesNext]_vars

\* ---------------------------------------------------------------------
\* The percentage tokens on their own: a packaging process that writes
\* lines with and without a NN% token, with and without a phase pattern
\* ---------------------------------------------------------------------
PercentLines ==
    { "5%", "30%", "50% done", "100%", "150%",
      "Cooking 30%", "Cooking 40%", "Staging files 70%",
      "12 of 34%", "Compiling", "UnrealPak", "percent sign % alone" }

PercentNext == \E output \in PercentLines : PkgStdout(output) /\ JobFrame

SpecPercent == RunningPackageInit /\ [][PercentNext]_vars

\* ------------------------------------------------------------------------
\* Properties
\* ------------------------------------------------------------------------
FromAnalysis(n) == n.from = "analysis"

\* C1: a packaging run cancelled while its process was running ends as
\* "cancelled by user" and no failure analysis message is ever shown for it,
\* also after the killed process has ended and its handler has run.
C1_CancelNeverReportedAsFailure ==
    (kind = "package" /\ cancelWhileAlive) =>
        /\ outcome = "cancelled"
        /\ errorMessage = "Packaging cancelled by user"
        /\ SelectSeq(notifications, FromAnalysis) = <<>>

\* C2: project file refresh: a failed primary command leads into the fallback
\* (whose command runs when GenerateProjectFiles.bat exists); a failed
\* fallback ends the job as failed; one job never spawns more than two
\* processes (one primary, one fallback).
C2_FallbackOnceThenFailed ==
    kind = "refresh" =>
        /\ spawned <= 2
        /\ (primaryEnd \in {"exit1", "timeout", "enoent"} => attempt = "fallback")
        /\ (attempt = "fallback" => primaryEnd \in {"exit1", "timeout", "enoent"})
        /\ (attempt = "fallback" /\ proc = "alive" => spawned = 2)
        /\ (attempt = "fallback" /\ proc = "none" => outcome = "failed")
        /\ (attempt = "fallback" /\ outcome # "pending" /\ ~ProcSucceeded(procResult)
               => outcome = "failed")

C2_Witness ==
    /\ kind = "refresh"
    /\ attempt = "fallback"
    /\ spawned = 2
    /\ proc = "exited"
    /\ procResult = "exit1"
    /\ outcome = "failed"

\* C3: build, cook and package jobs have no fallback: a failed run has
\* spawned exactly one process and never runs a second command.
C3_NoFallbackFailsDirectly ==
    kind \in {"build", "cook", "package"} =>
        /\ spawned = 1
        /\ attempt = "primary"

C3_Witness ==
    /\ kind = "build"
    /\ procResult = "exit1"
    /\ outcome = "failed"
    /\ spawned = 1

\* C4: when the primary command of the project file refresh was killed by
\* its timeout, the fallback command is not attempted.
C4_TimeoutSkipsFallback ==
    (kind = "refresh" /\ primaryEnd = "timeout") =>
        /\ attempt # "fallback"
        /\ spawned = 1

\* C5: within one packaging run every reported percentage is greater than or
\* equal to the one reported before it.
C5_ProgressMonotone ==
    /\ \A i \in 1..(Len(tracker.reports) - 1) :
           tracker.reports[i].percent <= tracker.reports[i + 1].percent
    /\ (tracker.reports # <<>> =>
           tracker.reports[Len(tracker.reports)].percent = tracker.lastProgressUpdate)

\* a run in which a later line suggests less than what was already reported:
\* "Compiling 20%" after "Cooking...", "50%"
C5_Witness ==
    /\ kind = "package"
    /\ observed = <<"Cooking...\n50%", "Compiling 20%">>
    /\ tracker.lastProgressUpdate = 50
    /\ Len(tracker.reports) = 2

\* C6: the progress state of a packaging run depends only on the lines this
\* run has observed: it starts at 0 with no phase and equals what a fresh
\* tracker produces from the same lines, whatever earlier runs observed.
C6_NoLeakBetweenRuns ==
    kind = "package" =>
        /\ tracker = ObserveChunks(FreshTracker, observed)
        /\ (observed = <<>> =>
               tracker.lastProgressUpdate = 0 /\ tracker.currentStep = "")

\* a second packaging run that reports less than the run before it ended with
C6_Witness ==
    /\ kind = "package"
    /\ runs = 2
    /\ staleLast = 150
    /\ observed = <<"Parsing command line\n">>
    /\ tracker.reports # <<>>
    /\ tracker.lastProgressUpdate < staleLast

\* C7: the console buffer never holds more than 1000 entries and always
\* holds the most recently appended entries, oldest first: all of them while
\* there are at most 1000, the last 1000 after that.
C7_BufferIsLastThousand ==
    /\ Len(outputLines) <= 1000
    /\ outputLines =
           SubSeq(appended,
                  IF Len(appended) > 1000 THEN Len(appended) - 999 ELSE 1,
                  Len(appended))

\* more than 1000 lines were appended and the oldest ones are gone
C7_Witness ==
    /\ Len(appended) > 1001
    /\ Len(outputLines) = 1000
    /\ outputLines[1] = appended[Len(appended) - 999]
    /\ outputLines[1000].line = "line " \o NatText(Len(appended))

\* C8: when the user cancels a cook or package job while its process is
\* running, a termination signal is sent to that process.
C8_CancelSendsSignal ==
    (kind \in {"cook", "package"} /\ cancelWhileAlive) => killSent

\* the job ended by itself: not cancelled, and not given up at a timeout
EndedAfterExitZero ==
    /\ outcome \in {"completed", "failed"}
    /\ attempt = "primary"
    /\ procResult = "exit0"
    /\ ~timedOut

\* the process behind a failure exited nonzero, was killed at the timeout or
\* could not be launched
ProcessFailed ==
    \/ procResult \in {"exit1", "signal", "enoent"}
    \/ timedOut
    \/ (attempt = "fallback" /\ proc = "none")

StderrVeto ==
    \/ /\ kind = "build"
       /\ totalError # ""
       /\ \E marker \in {"error C", "fatal error", "Build failed", "ERROR:",
                         "OtherCompilationError"} : Includes(totalError, marker)
    \/ /\ kind = "genfiles"
       /\ totalError # ""
       /\ ~Includes(totalError, "warning")

C10_TerminalOnlyAfterExit ==
    (cancelRequested /\ outcome \in {"completed", "failed", "cancelled"})
        => proc # "alive"

\* a stop request is in flight: its process was sent the signal and has not
\* exited yet, and no engine was launched since
StopInFlight ==
    /\ currentProcess = 0
    /\ \E id \in DOMAIN engines :
           engines[id].proc = "alive" /\ engines[id].kills > 0

\* C11: no engine process is sent the termination signal more than once, and
\* a stop request made while an earlier one is in flight changes nothing.
C11_SecondStopIsNoOp ==
    /\ [](\A id \in DOMAIN engines : engines[id].kills <= 1)
    /\ [][(stopEngine /\ StopInFlight) => UNCHANGED vars]_vars

\* the engine was stopped and its process is still alive
C11_Witness ==
    /\ StopInFlight
    /\ ~isEngineRunning
    /\ \E i \in DOMAIN outputLines :
           outputLines[i].line = "Engine process terminated by user"

\* C12: the result executeCommand returns when the timeout killed the
\* process differs from the result it returns when the process, having
\* written the same output, exited nonzero by itself; so does what the
\* caller reports.
C12_TimeoutDistinctFromFailure ==
    (kind = "cook" /\ outcome = "failed" /\ timedOut) =>
        /\ ExecuteCommandResult(procResult, TRUE, totalError)
               # ExecuteCommandResult("exit1", FALSE, totalError)
        /\ errorMessage
               # CookFailureMessage(ExecuteCommandResult("exit1", FALSE, totalError))

\* C13: opening the editor detached always reports success at once: whatever
\* the detached process does (keeps running, exits with any code, never
\* started), the job is completed and the success message is what was shown.
C13_DetachedAlwaysSucceeds ==
    kind = "open" =>
        /\ outcome = "completed"
        /\ errorMessage = ""
        /\ notifications = << [level |-> "info", from |-> "openEngine",
                               text |-> "Unreal Engine opened successfully"] >>

\* the detached editor exited with code 1 after success was reported
C13_Witness ==
    /\ kind = "open"
    /\ proc = "exited"
    /\ procResult = "exit1"
    /\ outcome = "completed"

\* the cause category a failure message stands for
CauseOf(message) ==
    CASE message = "Project file not found or invalid path" -> "missing-input"
      [] message = "Visual Studio build tools not found. Install Visual Studio 2022 with C++ tools."
             -> "missing-toolchain"
      [] message = "Windows SDK not found. Install Windows 10/11 SDK."
             -> "missing-toolchain"
      [] message = "Build failed. Try building the project in Development configuration first."
             -> "compile-failure"
      [] message = "Content cooking failed. Check for corrupted assets or invalid references."
             -> "content-failure"
      [] message = "UAT automation tool encountered an internal error"
             -> "internal-tool-exception"
      [] message = "RunUAT.bat not found. Check your engine path configuration."
             -> "launch-failure"
      [] OTHER -> "unspecified"

\* the cause categories in their priority order
CausePriority ==
    << "missing-input", "missing-toolchain", "compile-failure", "content-failure",
       "internal-tool-exception", "launch-failure" >>

\* the pattern of a cause category
CauseMatches(cause, output, message) ==
    CASE cause = "missing-input" ->
             Includes(output, "Could not find") /\ Includes(output, ".uproject")
      [] cause = "missing-toolchain" ->
             \/ Includes(output, "Visual Studio")
             \/ Includes(output, "MSVC")
             \/ Includes(output, "Windows SDK")
      [] cause = "compile-failure" ->
             Includes(output, "UnrealBuildTool") /\ Includes(output, "failed")
      [] cause = "content-failure" ->
             Includes(output, "Cook") /\ Includes(output, "failed")
      [] cause = "internal-tool-exception" ->
             Includes(output, "AutomationTool") /\ Includes(output, "exception")
      [] OTHER -> Includes(message, "ENOENT")

\* the first category in priority order whose pattern matches
FirstMatchingCause(output, message) ==
    LET hits == { i \in DOMAIN CausePriority :
                      CauseMatches(CausePriority[i], output, message) }
    IN  IF hits = {} THEN "unspecified"
        ELSE CausePriority[CHOOSE i \in hits : \A j \in hits : i <= j]

\* the failure of the packaging process has been analysed
FailureAnalysed ==
    /\ kind = "package"
    /\ handlerRan
    /\ outcome = "failed"

\* the error.message of the failed packaging process
FailureMessage ==
    ExecaMessage(procResult, FALSE, StripFinalNewline(totalError),
                 StripFinalNewline(totalOutput))

\* C14: the failure analysis reports the first cause in the priority order
\* missing-input, missing-toolchain, compile-failure, content-failure,
\* internal-tool-exception, launch-failure whose pattern matches, and the
\* unspecified cause when none matches.
C14_FirstMatchingCauseWins ==
    FailureAnalysed =>
        CauseOf(errorMessage) = FirstMatchingCause(AllOutput, FailureMessage)

\* a failure none of the patterns matches, reported as unspecified
C14_Witness ==
    /\ FailureAnalysed
    /\ totalOutput = "Packaging done\n"
    /\ CauseOf(errorMessage) = "unspecified"
    /\ errorMessage = "Packaging failed with exit code 1"

\* C15: the failure analysis matches case-insensitively: the cause reported
\* for an output is the cause reported for the same output in lower case.
C15_CaseInsensitiveCause ==
    FailureAnalysed =>
        CauseOf(errorMessage) =
            CauseOf(ErrorMessageOf(
                ToLowerCase(AllOutput),
                ExecaMessage(procResult, FALSE,
                             ToLowerCase(StripFinalNewline(totalError)),
                             ToLowerCase(StripFinalNewline(totalOutput))),
                ErrorExitCode(procResult)))

\* C16: a job without fallback whose output contains "error C2065" (here: is
\* that compiler error and nothing else) and whose process exited with code 1
\* is reported with the cause compile-failure.
C16_CompilerErrorIsCompileFailure ==
    (FailureAnalysed /\ procResult = "exit1" /\ spawned = 1
         /\ totalOutput = "error C2065: undeclared identifier\n"
         /\ totalError = "")
        => CauseOf(errorMessage) = "compile-failure"

\* the packaging run saw the lines "Cooking...", "50%", "Staging files" and
\* its process exited with code 0
CookThenStageRun ==
    /\ kind = "package"
    /\ observed = << "Cooking...\n50%", "Staging files\n" >>
    /\ ~cancelRequested
    /\ procResult = "exit0"
    /\ handlerRan

\* C17: after the lines "Cooking...", "50%", "Staging files" and exit code 0
\* the last phase reported is "Staging files..." at 50 percent or more, and
\* the run is completed with the success message shown.
C17_CookStageScenario ==
    CookThenStageRun =>
        /\ tracker.reports # <<>>
        /\ tracker.reports[Len(tracker.reports)].phase = "Staging files..."
        /\ tracker.reports[Len(tracker.reports)].percent >= 50
        /\ tracker.lastProgressUpdate >= 50
        /\ outcome = "completed"
        /\ \E i \in DOMAIN notifications :
               notifications[i].text = "Project packaged successfully"
        /\ \A i \in DOMAIN notifications : notifications[i].level # "error"

\* the scenario has run: three reports, the last one at 70
C17_Witness ==
    /\ CookThenStageRun
    /\ Len(tracker.reports) = 3
    /\ tracker.lastProgressUpdate = 70

\* C18: when the primary command of the project file refresh could not be
\* launched (ENOENT) the fallback is entered, and when the fallback command
\* exits with code 0 the refresh has succeeded: nothing is thrown and no
\* error is shown.
C18_LaunchFailureFallsBack ==
    (kind = "refresh" /\ primaryEnd = "enoent") =>
        /\ attempt = "fallback"
        /\ (proc = "exited" /\ procResult = "exit0" /\ outcome # "pending") =>
               /\ outcome = "completed"
               /\ errorMessage = ""
               /\ notifications = <<>>

\* the primary could not be launched and the fallback exited with code 0
C18_Witness ==
    /\ kind = "refresh"
    /\ primaryEnd = "enoent"
    /\ attempt = "fallback"
    /\ spawned = 2
    /\ procResult = "exit0"
    /\ outcome = "completed"

\* C19: the fallback command is started only from the first failure of the
\* job: the step that starts it leaves a primary attempt whose process did
\* not exit with code 0, and a refresh whose primary command exited with
\* code 0 never runs a second command.
C19_FallbackOnlyAfterFailure ==
    /\ []((kind = "refresh" /\ primaryEnd = "exit0")
              => (attempt = "primary" /\ spawned = 1 /\ outcome = "completed"))
    /\ [][(attempt' = "fallback" /\ attempt # "fallback")
              => /\ kind = "refresh"
                 /\ attempt = "primary"
                 /\ spawned = 1
                 /\ proc \in {"exited", "spawnfail"}
                 /\ procResult \in {"exit1", "signal", "enoent"}]_vars
    /\ [][spawned' > spawned
              => (spawned = 0 \/ (attempt = "primary" /\ attempt' = "fallback"))]_vars

\* the fallback command runs after the primary exited with code 1
C19_Witness ==
    /\ kind = "refresh"
    /\ primaryEnd = "exit1"
    /\ attempt = "fallback"
    /\ spawned = 2
    /\ proc = "alive"

\* The ordered rule table of the phase detection: a rule matches a line
\* when all the patterns of one of its alternatives occur in the line
PhaseRuleTable ==
    << [label |-> "Initializing...", value |-> 5,
        anyOf |-> {{"Parsing command line"}, {"Setting up command environment"}}],
       [label |-> "Building project...", value |-> 15,
        anyOf |-> {{"Compiling"}, {"Building", "Editor"}}],
       [label |-> "Cooking content...", value |-> 35,
        anyOf |-> {{"Cook by the book"}, {"Cooking"}, {"LogCook:"}}],
       [label |-> "Staging files...", value |-> 70,
        anyOf |-> {{"Staging files"}, {"***** STAGE COMMAND STARTED"}}],
       [label |-> "Creating package...", value |-> 85,
        anyOf |-> {{"Creating pak file"}, {"UnrealPak"}}],
       [label |-> "Finalizing...", value |-> 95,
        anyOf |-> {{"Moving staged files"}, {"***** ARCHIVE COMMAND STARTED"}}],
       [label |-> "Completed!", value |-> 100,
        anyOf |-> {{"BUILD SUCCESSFUL"}, {"AutomationTool exiting with ExitCode=0"}}] >>

MatchingRules(line) ==
    { i \in DOMAIN PhaseRuleTable :
        \E alt \in PhaseRuleTable[i].anyOf : \A pat \in alt : Includes(line, pat) }

FirstMatchingRule(line) ==
    CHOOSE i \in MatchingRules(line) : \A j \in MatchingRules(line) : i <= j

LastLine == Trim(observed[Len(observed)])

\* C20: after a line that matches one or more phase rules was handled, the
\* suggested percentage is the one of the first rule in the order
\* Initializing 5, Building 15, Cooking 35, Staging 70, Creating package
\* 85, Finalizing 95, Completed 100 that matches the line, and the
\* suggested label is that rule's: it is either still pending, or it was
\* reported with that percentage and cleared
C20_FirstMatchingRuleWins ==
    (kind = "package" /\ observed # <<>> /\ MatchingRules(LastLine) # {}) =>
        LET rule == PhaseRuleTable[FirstMatchingRule(LastLine)]
            n == Len(tracker.reports)
        IN  /\ tracker.progressValue = rule.value
            /\ \/ tracker.currentStep = rule.label
               \/ /\ tracker.currentStep = ""
                  /\ n > 0
                  /\ tracker.reports[n].phase = rule.label
                  /\ tracker.reports[n].percent = rule.value

\* a line that holds the patterns of Cooking and of Finalizing, the later
\* phase's first, was handled as the second line of the run
C20_Witness ==
    /\ kind = "package"
    /\ Len(observed) = 2
    /\ observed[2] = "Moving staged files: Cooking"
    /\ MatchingRules(LastLine) = {3, 6}
    /\ tracker.progressValue = 35

IsPercentReport(r) == r.phase = "Processing..."

IsStepReport(r) == r.phase # "Processing..."

\* C21: when one line is handled, a percentage update is sent exactly when
\* the line holds a NN% token whose value exceeds the last emitted
\* percentage (the one the line's own phase just emitted, if it emitted
\* one), whether or not the line matches a phase rule; the update carries
\* the token's value, which becomes the last emitted percentage. Without
\* such an update the last emitted percentage stays as it was
C21_PercentTokenUpdates ==
    [][(kind = "package" /\ Len(observed') = Len(observed) + 1) =>
        LET line == Trim(observed'[Len(observed')])
            sent == SubSeq(tracker'.reports, Len(tracker.reports) + 1,
                           Len(tracker'.reports))
            steps == SelectSeq(sent, IsStepReport)
            percents == SelectSeq(sent, IsPercentReport)
            lastEmitted == IF steps # <<>> THEN steps[Len(steps)].percent
                           ELSE tracker.lastProgressUpdate
        IN  /\ Len(percents) <= 1
            /\ (percents # <<>>) <=>
                   (HasPercent(line) /\ PercentOf(line) > lastEmitted)
            /\ (percents # <<>>) =>
                   /\ percents[1].percent = PercentOf(line)
                   /\ percents[1].increment = PercentOf(line) - lastEmitted
                   /\ tracker'.lastProgressUpdate = PercentOf(line)
            /\ (percents = <<>>) => tracker'.lastProgressUpdate = lastEmitted
      ]_vars

\* a line of the cooking phase with a token above the phase's 35 sent two
\* updates, and the following line's token 30 sent none
C21_Witness ==
    /\ kind = "package"
    /\ observed = <<"Cooking 40%", "30%">>
    /\ Len(tracker.reports) = 2
    /\ tracker.reports[1].phase = "Cooking content..."
    /\ tracker.reports[2].percent = 40
    /\ tracker.lastProgressUpdate = 40

IsCompletionBanner(e) == Includes(e.line, "Process completed with exit code: ")

IsFailureBanner(e) == Includes(e.line, "Process failed with exit code: ")

EndedRuns == { id \in DOMAIN enginePromise : enginePromise[id] # "pending" }

NonEmptyLines(text) == SelectSeq(SplitLines(text), LAMBDA line : Trim(line) # "")

StdoutEntryLines ==
    LET entries == SelectSeq(appended, LAMBDA e : e.type = "stdout")
    IN  [i \in 1..Len(entries) |-> entries[i].line]

\* C23: once the whole output of the process has arrived, in whatever pieces,
\* the stdout entries of the console are the non-empty lines of the output,
\* in order.
C23_EntriesAreLines ==
    (engines[1].stdout \in EngineOutputs) =>
        StdoutEntryLines = NonEmptyLines(engines[1].stdout)

LiveEngines == { id \in DOMAIN engines : engines[id].proc = "alive" }

\* C24: at no time are two processes alive that were spawned for the same
\* project: every editor process of the model is spawned by openEngine for
\* the one project of the workspace.
C24_AtMostOneLiveProcess == Cardinality(LiveEngines) <= 1

\* C25: every started cook or package job eventually reaches a terminal
\* state, also when its process never exits by itself.
C25_JobsEventuallyEnd ==
    (kind \in {"cook", "package"} /\ outcome = "pending") ~> (outcome # "pending")

\* the part of it that the timeout option of the cook provides
CookEventuallyEnds ==
    (kind = "cook" /\ outcome = "pending") ~> (outcome # "pending")

\* the success and error messages shown to the user in the current run
TerminalNotifications ==
    SelectSeq(notifications, LAMBDA n : n.level \in {"info", "error"})

\* C26: a packaging run that has ended has shown the user exactly one
\* message, the success message or one error message, and no run shows more
\* than one.
C26_OneTerminalNotification ==
    (kind = "package") =>
        /\ Len(TerminalNotifications) <= 1
        /\ (outcome # "pending") => Len(TerminalNotifications) = 1

\* C27: whenever an engine process is alive and has not been sent the stop
\* signal, the console shows the engine as running and its current process
\* is a live one, so that a stop request reaches a live process.  (Stated
\* for the sessions in which every launch started its process, in the states
\* where the handler of every ended process has run.)
C27_StatusTracksLiveness ==
    (\A id \in DOMAIN engines :
        /\ engines[id].result # "enoent"
        /\ engines[id].proc = "alive" \/ enginePromise[id] # "pending") =>
        \A id \in DOMAIN engines :
            (engines[id].proc = "alive" /\ engines[id].kills = 0) =>
                /\ isEngineRunning
                /\ currentProcess \in LiveEngines

RECURSIVE SumOfIncrements(_)
SumOfIncrements(reports) ==
    IF reports = <<>> THEN 0
    ELSE reports[1].increment + SumOfIncrements(Tail(reports))

\* everything progress.report was given in the current run: the updates of
\* the output handler and the one sent on successful completion
ReportedIncrements ==
    SumOfIncrements(tracker.reports)
      + SumOfIncrements(SelectSeq(notifications, LAMBDA n : n.level = "progress"))

\* C28: in a packaging run the increments reported so far add up to a value
\* in 0..100, and the last emitted percentage is at most 100.
C28_ProgressWithinHundred ==
    (kind = "package") =>
        /\ ReportedIncrements \in 0..100
        /\ tracker.lastProgressUpdate <= 100

\* C29: after 'Build and Package' a packaging process runs only when the
\* build has succeeded, and after 'Cancel' no process was spawned.
C29_BuildGatesPackaging ==
    /\ (kind = "package" /\ proc = "alive"
           /\ prerequisite.shouldBuild = "Build and Package")
           => prerequisite.build = "completed"
    /\ (prerequisite.shouldBuild = "Cancel") => spawned = 0

WrittenBy(run) == { f \in ConfigFileNames : configFiles[f] = run }

\* C30: the configuration files are written only in the step in which the
\* refresh of the running setup succeeds, by its primary or its fallback
\* command, and then all four are written; a setup whose refresh has not
\* succeeded has written none of them, and the step in which both commands
\* have failed leaves every file as it was.
C30_ConfigsOnlyAfterRefresh ==
    /\ [][(configFiles' # configFiles) =>
            /\ kind = "refresh" /\ outcome = "pending" /\ outcome' = "completed"
            /\ proc = "exited" /\ procResult = "exit0"
            /\ WrittenBy(runs)' = ConfigFileNames
         ]_vars
    /\ [][(kind = "refresh" /\ outcome = "pending" /\ outcome' = "failed") =>
            configFiles' = configFiles
         ]_vars
    /\ []((kind = "refresh" /\ outcome \in {"pending", "failed"}) =>
            WrittenBy(runs) = {})

\* a setup wrote the four files, and the next setup, whose primary and
\* fallback commands both failed, left them as the first had written them
C30_Witness ==
    /\ kind = "refresh"
    /\ runs = 2
    /\ outcome = "failed"
    /\ attempt = "fallback"
    /\ spawned = 2
    /\ WrittenBy(1) = ConfigFileNames

====
